---- MODULE Spec2Model ----
(***************************************************************************)
(* Model of the mouse tracking controller of plotting.py                   *)
(* (add_mouse_tracking_vertical_line and its nested remove_lines,          *)
(* on_mouse_move, on_close) together with register_event /                 *)
(* unregister_event and the part of matplotlib they drive: the canvas      *)
(* callback registry, Axes.axvline, Artist.remove and canvas.draw_idle.    *)
(* The second part models axes(), the builder of the stacked y-axes, over  *)
(* the Axes properties it sets, and the third legend().                    *)
(*                                                                         *)
(* Python dictionaries are functions whose DOMAIN is the set of keys that  *)
(* are present.  The inner dictionary {Axes: Line2D} keeps insertion       *)
(* order, which the code depends on (del + re-insert moves a key to the    *)
(* end), so it is a sequence of <<axes, line>> pairs.                      *)
(***************************************************************************)
EXTENDS Integers, Sequences, FiniteSets, TLC

\* ------------------------------------------------------------------ bounds
MaxCid == 4      \* callback ids a canvas hands out before the model stops enabling
MaxLines == 3    \* Line2D objects that can be alive at once
MaxX == 1        \* event.xdata ranges over 0..MaxX, in units of one half
MaxLabels == 3   \* labels in a collection passed as y_label_left / y_label_right
MaxLegendAxes == 2   \* Axes of the figure legend() is called on, and len(axes_)
MaxHandles == 2  \* labelled artists on one Axes

\* ------------------------------------------------------------- the universe
Surfaces == {"fig1", "fig2"}
AxesOf(s) == IF s = "fig1" THEN {"ax1", "ax2"} ELSE {"bx1"}
AllAxes == UNION {AxesOf(s) : s \in Surfaces}

None == 0                      \* the dictionary value None (no Line2D)
LineIds == 1..MaxLines         \* identities of Line2D objects
NoX == -1                      \* event.xdata is None
XData == 0..MaxX
NoConverter == "None"          \* x_converter = None
Converters == {NoConverter, "int"}

ArgNone == "None"              \* to_axes is None
ArgAxes == "axes"              \* to_axes is an Axes or an iterable of Axes
ArgOther == "other"            \* to_axes is anything else

MOUSE_MOVE == "motion_notify_event"
CLOSE == "close_event"

\* The "snap to integer" converter of the docstring: int(x), x in halves.
x_converter(conv, x) == IF conv = "int" THEN (x \div 2) * 2 ELSE x

\* ------------------------------------------------------- ordered dictionary
DictKeys(d) == [i \in 1..Len(d) |-> d[i][1]]
DictKeySet(d) == {d[i][1] : i \in 1..Len(d)}
DictGet(d, k) == d[CHOOSE i \in 1..Len(d) : d[i][1] = k][2]
DictDel(d, k) == SelectSeq(d, LAMBDA p : p[1] # k)
DictSet(d, k, v) ==
    IF k \in DictKeySet(d)
    THEN [i \in 1..Len(d) |-> IF d[i][1] = k THEN <<k, v>> ELSE d[i]]
    ELSE Append(d, <<k, v>>)

\* del dict[k] and dict[k] = v on a dictionary keyed by canvas
Without(f, k) == [j \in DOMAIN f \ {k} |-> f[j]]
With(f, k, v) == [j \in DOMAIN f \cup {k} |-> IF j = k THEN v ELSE f[j]]

\* ------------------------------------------------------------------ axes()
\* Spine positions are in Axes coordinates, in thousandths.
AxesUnit == 1000               \* 1.0, the right edge of the plotting area
DefaultOffset == 55            \* offset = 0.055
ExampleOffset == 100           \* offset = 0.1, the example of the docstring
Offsets == {DefaultOffset, ExampleOffset}

ArgStr == "str"                \* the argument is one string
ArgList == "list"              \* the argument is a collection of strings
LabelsLeft == {"A", "B"}
LabelsRight == {"C", "D"}
NoLabel == "<None>"            \* x_label is None

\* The values of a label argument: None, a string, a collection of up to
\* MaxLabels strings, or (ArgOther) a value of another type that is true and
\* cannot be iterated, such as 5.  Labels are non-empty strings.
LabelArgs(labels) ==
    {[kind |-> ArgNone, labels |-> <<>>], [kind |-> ArgOther, labels |-> <<>>]}
      \cup {[kind |-> ArgStr, labels |-> <<l>>] : l \in labels}
      \cup {[kind |-> ArgList, labels |-> ls] :
              ls \in UNION {[1..n -> labels] : n \in 0..MaxLabels}}

\* bool(arg) of a label argument.
Truthy(arg) == arg.kind = ArgOther \/ (arg.kind # ArgNone /\ arg.labels # <<>>)

Sides == {"left", "right", "top", "bottom"}

\* An Axes as plt.subplots() makes it, reduced to what axes() touches.
NewAxes ==
    [frame_on |-> TRUE, patch |-> TRUE, xaxis |-> TRUE,
     spines |-> [sd \in Sides |->
                   [visible |-> TRUE, kind |-> "outward", amount |-> 0]],
     xlabel |-> "", ylabel |-> "", label_position |-> "left",
     ticks_position |-> "default", useOffset |-> TRUE, grid |-> FALSE]

\* A figure is the sequence of its Axes, host_ax first, its suptitle text
\* and the layout call it received last.
HostAx == 1
NewFigure(suptitle) ==
    [axes |-> <<NewAxes>>, suptitle |-> suptitle, layout |-> "none"]

\* host_ax.twinx(): a new Axes on the figure with the y-axis on the right
\* and an invisible patch; the host's ticks go to the left.
twinx(fig) ==
    [fig EXCEPT !.axes =
        Append([@ EXCEPT ![HostAx].ticks_position = "left"],
               [NewAxes EXCEPT !.patch = FALSE, !.xaxis = FALSE,
                               !.label_position = "right",
                               !.ticks_position = "right"])]

\* make_patch_spines_invisible that leaves the spines as they are.
make_patch_spines_invisible_keeps_spines(ax) ==
    [ax EXCEPT !.frame_on = TRUE, !.patch = FALSE]

make_patch_spines_invisible(ax) ==
    [ax EXCEPT !.frame_on = TRUE, !.patch = FALSE,
               !.spines = [sd \in Sides |-> [@[sd] EXCEPT !.visible = FALSE]]]

\* The left loop taking host_ax for the axis nearest to the plot.
uses_host_last(n, i) == i = n - 1

\* `host_ax if (i == 0) else host_ax.twinx()`
uses_host(n, i) == i = 0

\* Left positions growing away from the plot with i.
left_position_outward(n, i, offset) == -i * offset

\* -(len(y_label_left) - i - 1) * offset
left_position(n, i, offset) == -(n - i - 1) * offset

\* Right positions going into the plot with i.
right_position_inward(i, offset) == AxesUnit - i * offset

\* 1 + i * offset
right_position(i, offset) == AxesUnit + i * offset

\* `for i, label in enumerate(y_label_left)`, from index i; r holds the
\* figure and axs_left.
RECURSIVE left_loop(_, _, _, _)
left_loop(r, labels, i, offset) ==
    IF i >= Len(labels) THEN r
    ELSE LET n == Len(labels)
             made == IF uses_host(n, i) THEN r.fig ELSE twinx(r.fig)
             ax == IF uses_host(n, i) THEN HostAx ELSE Len(made.axes)
             placed == [made.axes[ax] EXCEPT
                          !.spines["left"].kind = "axes",
                          !.spines["left"].amount = left_position(n, i, offset)]
             hidden == IF i < n - 1
                       THEN make_patch_spines_invisible(placed) ELSE placed
             done == [hidden EXCEPT !.spines["left"].visible = TRUE,
                                    !.label_position = "left",
                                    !.ticks_position = "left",
                                    !.ylabel = labels[i + 1]]
         IN left_loop([fig |-> [made EXCEPT !.axes[ax] = done],
                       axs |-> Append(r.axs, ax)],
                      labels, i + 1, offset)

\* `for i, label in enumerate(y_label_right)`, from index i; r holds the
\* figure and axs_right.
RECURSIVE right_loop(_, _, _, _)
right_loop(r, labels, i, offset) ==
    IF i >= Len(labels) THEN r
    ELSE LET made == twinx(r.fig)
             ax == Len(made.axes)
             placed == [made.axes[ax] EXCEPT
                          !.spines["right"].kind = "axes",
                          !.spines["right"].amount = right_position(i, offset)]
             hidden == IF i > 0
                       THEN make_patch_spines_invisible(placed) ELSE placed
             done == [hidden EXCEPT !.spines["right"].visible = TRUE,
                                    !.label_position = "right",
                                    !.ticks_position = "right",
                                    !.ylabel = labels[i + 1]]
         IN right_loop([fig |-> [made EXCEPT !.axes[ax] = done],
                        axs |-> Append(r.axs, ax)],
                       labels, i + 1, offset)

\* The string branch with the host treated as a collection of one label.
left_str_as_collection(fig, label) ==
    left_loop([fig |-> fig, axs |-> <<>>], <<label>>, 0, 0)

\* `if isinstance(y_label_left, str)`: the host gets the label and is the
\* only left Axes.
left_str(fig, label) ==
    [fig |-> [fig EXCEPT !.axes[HostAx].ylabel = label], axs |-> <<HostAx>>]

\* axes(host_ax, x_label, y_label_left, y_label_right, offset) on the figure
\* of host_ax: the figure afterwards, the returned list, and err when
\* enumerate() raised TypeError on a label argument that cannot be iterated
\* (the figure is then as the statements before it left it).
axes(fig, x_label, y_label_left, y_label_right, offset) ==
    LET labelled == IF x_label # NoLabel
                    THEN [fig EXCEPT !.axes[HostAx].xlabel = x_label] ELSE fig
        gridded == [labelled EXCEPT !.axes[HostAx].grid = TRUE]
        left == IF y_label_left.kind = ArgStr
                THEN left_str(gridded, y_label_left.labels[1])
                ELSE IF Truthy(y_label_left)
                THEN left_loop([fig |-> gridded, axs |-> <<>>],
                               y_label_left.labels, 0, offset)
                ELSE [fig |-> gridded, axs |-> <<>>]
        right == IF Truthy(y_label_right)
                 THEN right_loop([fig |-> left.fig, axs |-> <<>>],
                                 y_label_right.labels, 0, offset)
                 ELSE [fig |-> left.fig, axs |-> <<>>]
        axs == left.axs \o right.axs
        formatted == [right.fig EXCEPT !.axes =
                        [k \in DOMAIN @ |->
                           IF \E j \in 1..Len(axs) : axs[j] = k
                           THEN [@[k] EXCEPT !.useOffset = FALSE] ELSE @[k]]]
        laid == [formatted EXCEPT !.layout =
                    IF fig.suptitle # "" THEN "rect" ELSE "tight"]
    IN IF y_label_left.kind = ArgOther
       THEN [fig |-> gridded, axs |-> <<>>, err |-> TRUE]
       ELSE IF y_label_right.kind = ArgOther
       THEN [fig |-> left.fig, axs |-> <<>>, err |-> TRUE]
       ELSE [fig |-> laid, axs |-> axs, err |-> FALSE]

\* ---------------------------------------------------------------- legend()
\* The values of LegendLocation.
LegendLocation ==
    {"best", "upper right", "upper left", "lower left", "lower right",
     "right", "center left", "center right", "lower center", "upper center",
     "center"}

\* The values of the argument loc: a member of LegendLocation, a string (one
\* that is the value of a member, or "middle", which is not), or a pair of
\* coordinates, which matplotlib takes as a location too.
ArgEnum == "LegendLocation"
ArgTuple == "tuple"
Locs ==
    {[kind |-> ArgEnum, value |-> v] : v \in LegendLocation}
      \cup {[kind |-> ArgStr, value |-> v] : v \in {"best", "middle"}}
      \cup {[kind |-> ArgTuple, value |-> "(0.5, 0.5)"]}

\* The Axes of the figure and the sequences axes_ over them.
LegendAxes == 1..MaxLegendAxes
AxesLists == UNION {[1..n -> LegendAxes] : n \in 0..MaxLegendAxes}

\* The n labelled artists of Axes k with their labels, in the order they
\* were plotted.
Handles(k, n) == [j \in 1..n |-> <<"line", k, j>>]
HandleLabels(k, n) == [j \in 1..n |-> <<"label", k, j>>]

\* axis.get_legend_handles_labels() of Axes k carrying plotted[k] artists.
get_legend_handles_labels(plotted, k) ==
    [lines |-> Handles(k, plotted[k]), labels |-> HandleLabels(k, plotted[k])]

NoLegend == [attached |-> FALSE, lines |-> <<>>, labels |-> <<>>, loc |-> ""]

\* Axes.legend(lines, labels, loc=loc) of matplotlib.  A string that is no
\* location name makes it raise ValueError or, in the releases that only
\* warn, fall back on "best" (falls_back).
AxesLegend(legends, k, lines, labels, loc, falls_back) ==
    IF loc \in LegendLocation \/ loc = "(0.5, 0.5)"
    THEN [legends |-> [legends EXCEPT ![k] =
                         [attached |-> TRUE, lines |-> lines,
                          labels |-> labels, loc |-> loc]],
          err |-> FALSE]
    ELSE IF falls_back
    THEN [legends |-> [legends EXCEPT ![k] =
                         [attached |-> TRUE, lines |-> lines,
                          labels |-> labels, loc |-> "best"]],
          err |-> FALSE]
    ELSE [legends |-> legends, err |-> TRUE]

\* `for axis in axes_`: lines.extend(lines_); labels.extend(labels_).
RECURSIVE extend_loop(_, _)
extend_loop(plotted, axes_) ==
    IF axes_ = <<>> THEN [lines |-> <<>>, labels |-> <<>>]
    ELSE LET got == get_legend_handles_labels(plotted, Head(axes_))
             rest == extend_loop(plotted, Tail(axes_))
         IN [lines |-> got.lines \o rest.lines,
             labels |-> got.labels \o rest.labels]

\* legend() that gives every Axes of axes_ the combined legend.
legend_on_every_axes(legends, plotted, axes_, loc, falls_back) ==
    LET all == extend_loop(plotted, axes_)
    IN IF axes_ = <<>> THEN [legends |-> legends, err |-> TRUE]
       ELSE [legends |->
               [k \in DOMAIN legends |->
                  IF \E i \in 1..Len(axes_) : axes_[i] = k
                  THEN [attached |-> TRUE, lines |-> all.lines,
                        labels |-> all.labels, loc |-> loc.value]
                  ELSE legends[k]],
             err |-> FALSE]

\* legend(axes_, loc): the legends of the Axes afterwards, and err when
\* axes_[0] raised IndexError or Axes.legend raised.
legend(legends, plotted, axes_, loc, falls_back) ==
    LET all == extend_loop(plotted, axes_)
    IN IF axes_ = <<>> THEN [legends |-> legends, err |-> TRUE]
       ELSE AxesLegend(legends, axes_[1], all.lines, all.labels, loc.value,
                       falls_back)

\* ------------------------------------------------------------------- state
VARIABLES
    mouse_tracking_vertical_lines_cid,  \* canvas -> <<mouse_cid, close_cid>>
    mouse_tracking_vertical_lines,      \* canvas -> ordered dict axes -> line
    callbacks,      \* canvas -> set of connected [cid, signal, conv]
    next_cid,       \* canvas -> next callback id of its CallbackRegistry
    artists,        \* line id -> [live, ax, x, attached]
    draw_pending,   \* canvas -> a draw_idle() is waiting for the next repaint
    unsubscribed,   \* <<canvas, cid>> for which unregister_event has returned
    enabled_with,   \* canvas with stored ids -> the axes its enabling call got
    axes_call,      \* a call of axes(): its arguments, then also its result
    legend_call,    \* a call of legend(): its arguments, then also its effect
    last            \* what the last operation did (observation only)

vars == <<mouse_tracking_vertical_lines_cid, mouse_tracking_vertical_lines,
          callbacks, next_cid, artists, draw_pending, unsubscribed,
          enabled_with, axes_call, legend_call, last>>

NoArtist == [live |-> FALSE, ax |-> "", x |-> 0, attached |-> FALSE]

\* The program state as one value, threaded through the handlers. err: an
\* exception is propagating; ran: ids of the callbacks invoked; idle:
\* draw_idle() calls; peak: the most tracking lines any one Axes carried at
\* an instant of the operation; full: the model ran out of Line2D identities;
\* why: what raised; refuse: the signals mpl_connect raises for during the
\* operation; late: ids of callbacks invoked after they were unregistered;
\* made: the ids mpl_connect handed out during the operation.
State ==
    [cid |-> mouse_tracking_vertical_lines_cid,
     lines |-> mouse_tracking_vertical_lines,
     cbs |-> callbacks,
     next |-> next_cid,
     art |-> artists,
     pending |-> draw_pending,
     unsub |-> unsubscribed,
     err |-> FALSE, ran |-> {}, idle |-> 0, peak |-> 0, full |-> FALSE,
     why |-> "", refuse |-> {}, late |-> {}, made |-> {}]

\* An exception starts to propagate.
Raise(st, why) == [st EXCEPT !.err = TRUE, !.why = why]

\* ------------------------------------------------------ matplotlib objects
\* Python frees a Line2D once nothing refers to it: it is neither a child of
\* its Axes nor a value of a tracking dictionary.
Referenced(st, l) ==
    \/ st.art[l].live /\ st.art[l].attached
    \/ \E c \in DOMAIN st.lines :
          \E i \in 1..Len(st.lines[c]) : st.lines[c][i][2] = l

Collect(st) ==
    [st EXCEPT !.art = [l \in LineIds |->
                          IF Referenced(st, l) THEN st.art[l] ELSE NoArtist]]

\* Axes.axvline(x=x, **line_kwargs): a new Line2D, added to the Axes. The
\* keyword arguments only style the line and are passed through untouched.
NewLine(st) == CHOOSE l \in LineIds :
                  /\ ~Referenced(st, l)
                  /\ \A k \in LineIds : ~Referenced(st, k) => l <= k

\* The Line2D objects that are children of the Axes ax.
LinesOn(art, ax) == {l \in LineIds : art[l].live /\ art[l].attached /\ art[l].ax = ax}

Max(a, b) == IF a >= b THEN a ELSE b

axvline(st, ax, x) ==
    IF \A l \in LineIds : Referenced(st, l)
    THEN [st EXCEPT !.full = TRUE]
    ELSE [st EXCEPT !.art[NewLine(st)] =
                       [live |-> TRUE, ax |-> ax, x |-> x, attached |-> TRUE],
                    !.peak = Max(@, Cardinality(LinesOn(st.art, ax)) + 1)]

\* Artist.remove(): takes the artist off its Axes; an artist that is on no
\* Axes any more raises.
ArtistRemove(st, l) ==
    IF st.art[l].live /\ st.art[l].attached
    THEN [st EXCEPT !.art[l].attached = FALSE]
    ELSE Raise(st, "remove")

\* canvas.mpl_connect(signal, callback): the registry's next id; raises on a
\* canvas whose event bus does not take the signal.
mpl_connect(st, canvas, signal, conv) ==
    IF signal \in st.refuse THEN Raise(st, "connect")
    ELSE [st EXCEPT !.cbs[canvas] = @ \cup
                       {[cid |-> st.next[canvas], signal |-> signal,
                         conv |-> conv]},
                    !.next[canvas] = @ + 1,
                    !.made = @ \cup {st.next[canvas]}]

\* mpl_disconnect that leaves the callback connected.
mpl_disconnect_keeps_callback(st, canvas, cid) == st

\* mpl_disconnect that drops the id from the registry of every canvas.
mpl_disconnect_every_canvas(st, canvas, cid) ==
    [st EXCEPT !.cbs = [c \in DOMAIN @ |-> {cb \in @[c] : cb.cid # cid}]]

\* canvas.mpl_disconnect(cid): silently ignores an unknown id.
mpl_disconnect(st, canvas, cid) ==
    [st EXCEPT !.cbs[canvas] = {cb \in @ : cb.cid # cid}]

\* canvas.draw_idle()
draw_idle(st, canvas) ==
    [st EXCEPT !.pending[canvas] = TRUE, !.idle = @ + 1]

\* ----------------------------------------------------------- plotting.py
\* The callback is a closure of add_mouse_tracking_vertical_line: it carries
\* the x_converter of the call that registered it.
register_event(st, canvas, event, conv) ==
    mpl_connect(st, canvas, event, conv)

\* unregister_event(fig, cid); once it has returned, <<canvas, cid>> counts
\* as unsubscribed.
unregister_event(st, canvas, cid) ==
    [mpl_disconnect(st, canvas, cid) EXCEPT !.unsub = @ \cup {<<canvas, cid>>}]

\* remove_lines(canvas_axes), canvas_axes being the dictionary of `canvas`:
\* the loop over tuple(canvas_axes.keys()), stopping at an exception.
RECURSIVE remove_lines_loop(_, _, _)
remove_lines_loop(st, canvas, keys) ==
    IF keys = <<>> \/ st.err THEN st
    ELSE LET ax == Head(keys)
             line == DictGet(st.lines[canvas], ax)
         IN IF line = None
            THEN remove_lines_loop(st, canvas, Tail(keys))
            ELSE LET removed == ArtistRemove(st, line)
                 IN IF removed.err THEN removed
                    ELSE remove_lines_loop(
                           [removed EXCEPT !.lines[canvas] =
                               DictSet(DictDel(@, ax), ax, None)],
                           canvas, Tail(keys))

\* remove_lines that removes the lines from their Axes and leaves the
\* dictionary as it was.
remove_lines_keeps_value(st, canvas) ==
    LET done == remove_lines_loop(st, canvas, DictKeys(st.lines[canvas]))
    IN IF done.err THEN done ELSE [done EXCEPT !.lines = st.lines]

\* remove_lines followed by a draw_idle() request.
remove_lines_redraws(st, canvas) ==
    LET done == remove_lines_loop(st, canvas, DictKeys(st.lines[canvas]))
    IN IF done.err THEN done ELSE draw_idle(done, canvas)

\* remove_lines that stops at `del canvas_axes[ax]`: the key is not put
\* back.
RECURSIVE remove_lines_drops_key_loop(_, _, _)
remove_lines_drops_key_loop(st, canvas, keys) ==
    IF keys = <<>> \/ st.err THEN st
    ELSE LET ax == Head(keys)
             line == DictGet(st.lines[canvas], ax)
         IN IF line = None
            THEN remove_lines_drops_key_loop(st, canvas, Tail(keys))
            ELSE LET removed == ArtistRemove(st, line)
                 IN IF removed.err THEN removed
                    ELSE remove_lines_drops_key_loop(
                           [removed EXCEPT !.lines[canvas] = DictDel(@, ax)],
                           canvas, Tail(keys))

remove_lines_drops_key(st, canvas) ==
    remove_lines_drops_key_loop(st, canvas, DictKeys(st.lines[canvas]))

remove_lines(st, canvas) ==
    remove_lines_loop(st, canvas, DictKeys(st.lines[canvas]))

\* The drawing loop of on_mouse_move, `for ax in my_axes`, from position i;
\* fail_at > 0 makes the axvline call of that position raise.
RECURSIVE draw_loop(_, _, _, _, _)
draw_loop(st, canvas, i, x, fail_at) ==
    IF i > Len(st.lines[canvas]) \/ st.full THEN st
    ELSE IF i = fail_at THEN Raise(st, "axvline")
    ELSE LET ax == st.lines[canvas][i][1]
             drawn == axvline(st, ax, x)
         IN IF drawn.full THEN drawn
            ELSE draw_loop(
                   [drawn EXCEPT !.lines[canvas] = DictSet(@, ax, NewLine(st))],
                   canvas, i + 1, x, fail_at)

\* on_mouse_move without the remove_lines call.
on_mouse_move_no_clear(st, canvas, cb, xdata, conv_fails, fail_at) ==
    IF canvas \notin DOMAIN st.lines THEN Raise(st, "KeyError")
    ELSE IF xdata = NoX THEN st
    ELSE IF cb.conv # NoConverter /\ conv_fails THEN Raise(st, "converter")
    ELSE LET x == IF cb.conv # NoConverter
                  THEN x_converter(cb.conv, xdata) ELSE xdata
             drawn == draw_loop(st, canvas, 1, x, fail_at)
         IN IF drawn.err \/ drawn.full THEN drawn
            ELSE draw_idle(drawn, canvas)

\* on_mouse_move that never applies x_converter.
on_mouse_move_no_converter(st, canvas, cb, xdata, conv_fails, fail_at) ==
    IF canvas \notin DOMAIN st.lines THEN Raise(st, "KeyError")
    ELSE LET cleared == remove_lines(st, canvas)
         IN IF cleared.err \/ xdata = NoX THEN cleared
            ELSE LET drawn == draw_loop(cleared, canvas, 1, xdata, fail_at)
                 IN IF drawn.err \/ drawn.full THEN drawn
                    ELSE draw_idle(drawn, canvas)

\* on_mouse_move that calls x_converter before remove_lines.
on_mouse_move_converts_first(st, canvas, cb, xdata, conv_fails, fail_at) ==
    IF canvas \notin DOMAIN st.lines THEN Raise(st, "KeyError")
    ELSE IF xdata # NoX /\ cb.conv # NoConverter /\ conv_fails
         THEN Raise(st, "converter")
    ELSE LET cleared == remove_lines(st, canvas)
         IN IF cleared.err \/ xdata = NoX THEN cleared
            ELSE LET x == IF cb.conv # NoConverter
                          THEN x_converter(cb.conv, xdata) ELSE xdata
                     drawn == draw_loop(cleared, canvas, 1, x, fail_at)
                 IN IF drawn.err \/ drawn.full THEN drawn
                    ELSE draw_idle(drawn, canvas)

\* on_mouse_move(event) of the closure cb, event.canvas = canvas and
\* event.xdata = xdata; conv_fails makes x_converter raise.
on_mouse_move(st, canvas, cb, xdata, conv_fails, fail_at) ==
    IF canvas \notin DOMAIN st.lines THEN Raise(st, "KeyError")
    ELSE LET cleared == remove_lines(st, canvas)
         IN IF cleared.err \/ xdata = NoX THEN cleared
            ELSE IF cb.conv # NoConverter /\ conv_fails
                 THEN Raise(cleared, "converter")
            ELSE LET x == IF cb.conv # NoConverter
                          THEN x_converter(cb.conv, xdata) ELSE xdata
                     drawn == draw_loop(cleared, canvas, 1, x, fail_at)
                 IN IF drawn.err \/ drawn.full THEN drawn
                    ELSE draw_idle(drawn, canvas)

\* on_close without the unregister_event loop.
on_close_keeps_events(st, canvas) ==
    IF canvas \notin DOMAIN st.cid THEN st
    ELSE LET forgotten == [st EXCEPT !.cid = Without(@, canvas)]
             cleared == remove_lines(forgotten, canvas)
         IN IF cleared.err THEN cleared
            ELSE [cleared EXCEPT !.lines = Without(@, canvas)]

\* on_close without the final del _mouse_tracking_vertical_lines[canvas].
on_close_keeps_lines(st, canvas) ==
    IF canvas \notin DOMAIN st.cid THEN st
    ELSE LET cids == st.cid[canvas]
             unregistered ==
                unregister_event(unregister_event(st, canvas, cids[1]),
                                 canvas, cids[2])
             forgotten == [unregistered EXCEPT !.cid = Without(@, canvas)]
         IN remove_lines(forgotten, canvas)

\* on_close without the early return for a canvas that has no ids stored:
\* the lookup raises KeyError.
on_close_no_guard(st, canvas) ==
    IF canvas \notin DOMAIN st.cid THEN Raise(st, "KeyError")
    ELSE LET cids == st.cid[canvas]
             unregistered ==
                unregister_event(unregister_event(st, canvas, cids[1]),
                                 canvas, cids[2])
             forgotten == [unregistered EXCEPT !.cid = Without(@, canvas)]
             cleared == remove_lines(forgotten, canvas)
         IN IF cleared.err THEN cleared
            ELSE [cleared EXCEPT !.lines = Without(@, canvas)]

\* on_close(event), event.canvas = canvas
on_close(st, canvas) ==
    IF canvas \notin DOMAIN st.cid THEN st
    ELSE LET cids == st.cid[canvas]
             unregistered ==
                unregister_event(unregister_event(st, canvas, cids[1]),
                                 canvas, cids[2])
             forgotten == [unregistered EXCEPT !.cid = Without(@, canvas)]
         IN IF canvas \notin DOMAIN forgotten.lines
            THEN Raise(forgotten, "KeyError")
            ELSE LET cleared == remove_lines(forgotten, canvas)
                 IN IF cleared.err THEN cleared
                    ELSE [cleared EXCEPT !.lines = Without(@, canvas)]

\* {ax: None for ax in to_axes if ax}: duplicates keep their first position.
RECURSIVE new_dict(_)
new_dict(to_axes) ==
    IF to_axes = <<>> THEN <<>>
    ELSE LET front == new_dict(SubSeq(to_axes, 1, Len(to_axes) - 1))
         IN DictSet(front, to_axes[Len(to_axes)], None)

\* add_mouse_tracking_vertical_line without the fake close event.
add_mouse_tracking_vertical_line_no_teardown(st, canvas, kind, to_axes, conv) ==
    IF kind = ArgNone THEN st
    ELSE IF kind = ArgOther THEN Raise(st, "TypeError")
    ELSE LET saved == [st EXCEPT !.lines = With(@, canvas, new_dict(to_axes))]
             mouse_cid == saved.next[canvas]
             moved == register_event(saved, canvas, MOUSE_MOVE, conv)
             close_cid == moved.next[canvas]
             both == register_event(moved, canvas, CLOSE, conv)
         IN [both EXCEPT !.cid = With(@, canvas, <<mouse_cid, close_cid>>)]

\* add_mouse_tracking_vertical_line(fig, to_axes, x_converter, **line_kwargs)
\* with fig.canvas = canvas. kind tells what to_axes is: None, one Axes or an
\* iterable of Axes (the sequence to_axes), or a value that is neither, on
\* which tuple(to_axes) raises.
add_mouse_tracking_vertical_line(st, canvas, kind, to_axes, conv) ==
    LET closed == on_close(st, canvas)
    IN IF closed.err \/ kind = ArgNone THEN closed
       ELSE IF kind = ArgOther THEN Raise(closed, "TypeError")
       ELSE LET saved == [closed EXCEPT !.lines =
                             With(@, canvas, new_dict(to_axes))]
                mouse_cid == saved.next[canvas]
                moved == register_event(saved, canvas, MOUSE_MOVE, conv)
                close_cid == moved.next[canvas]
                both == register_event(moved, canvas, CLOSE, conv)
            IN IF moved.err THEN moved
               ELSE IF both.err THEN both
               ELSE [both EXCEPT !.cid =
                        With(@, canvas, <<mouse_cid, close_cid>>)]

\* CallbackRegistry.process(signal, event): every callback connected for the
\* signal when the event is dispatched, in connection order; an exception
\* raised by a callback ends the dispatch.
RECURSIVE process_loop(_, _, _, _, _, _)
process_loop(st, canvas, todo, xdata, conv_fails, fail_at) ==
    IF todo = {} \/ st.err \/ st.full THEN st
    ELSE LET cb == CHOOSE c \in todo : \A d \in todo : c.cid <= d.cid
             called == [st EXCEPT
                          !.ran = @ \cup {cb.cid},
                          !.late = @ \cup (IF <<canvas, cb.cid>> \in st.unsub
                                           THEN {cb.cid} ELSE {})]
             after == IF cb.signal = MOUSE_MOVE
                      THEN on_mouse_move(called, canvas, cb, xdata,
                                         conv_fails, fail_at)
                      ELSE on_close(called, canvas)
         IN process_loop(after, canvas, todo \ {cb}, xdata, conv_fails, fail_at)

process(st, canvas, signal, xdata, conv_fails, fail_at) ==
    process_loop(st, canvas, {cb \in st.cbs[canvas] : cb.signal = signal},
                 xdata, conv_fails, fail_at)

\* ------------------------------------------------------------ transitions
\* The arguments a caller passes as to_axes: the axes of the figure, in any
\* order, possibly repeated, possibly none.
ToAxes(s) == UNION {[1..n -> AxesOf(s)] : n \in 0..Cardinality(AxesOf(s))}

NoLast == [op |-> "init", canvas |-> "", xdata |-> NoX, to_axes |-> <<>>,
           pre_cid |-> <<>>, pre_lines |-> 0,
           err |-> FALSE, ran |-> {}, idle |-> 0, peak |-> 0,
           why |-> "", late |-> {}, made |-> {}]

\* No call of axes() is under way.
NoCall == [phase |-> "none", x_label |-> NoLabel,
           y_label_left |-> [kind |-> ArgNone, labels |-> <<>>],
           y_label_right |-> [kind |-> ArgNone, labels |-> <<>>],
           offset |-> DefaultOffset, fig |-> NewFigure(""), axs |-> <<>>]

\* No call of legend() is under way.
NoLegendCall ==
    [phase |-> "none", axes_ |-> <<>>,
     loc |-> [kind |-> ArgEnum, value |-> "best"],
     plotted |-> [k \in LegendAxes |-> 0],
     legends |-> [k \in LegendAxes |-> NoLegend]]

PreCid(canvas) ==
    IF canvas \in DOMAIN mouse_tracking_vertical_lines_cid
    THEN mouse_tracking_vertical_lines_cid[canvas] ELSE <<>>

\* The tracking lines on the axes of a figure.
LinesOfFigure(art, canvas) == UNION {LinesOn(art, ax) : ax \in AxesOf(canvas)}

\* The state r an operation ends in becomes the next state; last records the
\* operation, its arguments, the ids the canvas had stored and the number of
\* lines its axes carried before it, and how it ended.
Commit(r, op, canvas, xdata, to_axes) ==
    /\ ~r.full
    /\ mouse_tracking_vertical_lines_cid' = r.cid
    /\ mouse_tracking_vertical_lines' = r.lines
    /\ callbacks' = r.cbs
    /\ next_cid' = r.next
    /\ artists' = Collect(r).art
    /\ draw_pending' = r.pending
    /\ unsubscribed' = r.unsub
    /\ enabled_with' =
          IF op = "enable" /\ ~r.err
          THEN With(enabled_with, canvas,
                    {to_axes[i] : i \in 1..Len(to_axes)})
          ELSE IF canvas \notin DOMAIN r.cid THEN Without(enabled_with, canvas)
          ELSE enabled_with
    /\ UNCHANGED <<axes_call, legend_call>>
    /\ last' = [op |-> op, canvas |-> canvas, xdata |-> xdata,
                to_axes |-> to_axes, pre_cid |-> PreCid(canvas),
                pre_lines |-> Cardinality(LinesOfFigure(artists, canvas)),
                err |-> r.err, ran |-> r.ran, idle |-> r.idle,
                peak |-> r.peak, why |-> r.why, late |-> r.late,
                made |-> r.made]

Init ==
    /\ mouse_tracking_vertical_lines_cid = <<>>
    /\ mouse_tracking_vertical_lines = <<>>
    /\ callbacks = [s \in Surfaces |-> {}]
    /\ next_cid = [s \in Surfaces |-> 1]
    /\ artists = [l \in LineIds |-> NoArtist]
    /\ draw_pending = [s \in Surfaces |-> FALSE]
    /\ unsubscribed = {}
    /\ enabled_with = <<>>
    /\ axes_call = NoCall
    /\ legend_call = NoLegendCall
    /\ last = NoLast

\* enable_tracking: add_mouse_tracking_vertical_line(fig, to_axes, x_converter)
EnableTracking(canvas, to_axes, conv) ==
    /\ next_cid[canvas] + 1 <= MaxCid
    /\ Commit(add_mouse_tracking_vertical_line(State, canvas, ArgAxes, to_axes,
                                               conv),
              "enable", canvas, NoX, to_axes)

\* disable_tracking: add_mouse_tracking_vertical_line(fig, None)
DisableTracking(canvas) ==
    Commit(add_mouse_tracking_vertical_line(State, canvas, ArgNone, <<>>,
                                            NoConverter),
           "disable", canvas, NoX, <<>>)

\* The canvas delivers a motion_notify_event; xdata is None outside the axes.
MouseMove(canvas, xdata) ==
    Commit(process(State, canvas, MOUSE_MOVE, xdata, FALSE, 0),
           "move", canvas, xdata, <<>>)

\* The canvas delivers a close_event.
CloseEvent(canvas) ==
    Commit(process(State, canvas, CLOSE, NoX, FALSE, 0),
           "close", canvas, NoX, <<>>)

\* The event loop repaints a canvas that asked for it with draw_idle().
Repaint(canvas) ==
    /\ draw_pending[canvas]
    /\ draw_pending' = [draw_pending EXCEPT ![canvas] = FALSE]
    /\ last' = [NoLast EXCEPT !.op = "repaint", !.canvas = canvas]
    /\ UNCHANGED <<mouse_tracking_vertical_lines_cid,
                   mouse_tracking_vertical_lines, callbacks, next_cid, artists,
                   unsubscribed, enabled_with, axes_call, legend_call>>

Next ==
    \/ \E s \in Surfaces : \E to_axes \in ToAxes(s), conv \in Converters :
          EnableTracking(s, to_axes, conv)
    \/ \E s \in Surfaces : DisableTracking(s)
    \/ \E s \in Surfaces, xdata \in XData \cup {NoX} : MouseMove(s, xdata)
    \/ \E s \in Surfaces : CloseEvent(s)
    \/ \E s \in Surfaces : Repaint(s)

Spec == Init /\ [][Next]_vars

\* ------------------------------------------------- operations that raise
\* A motion_notify_event during which x_converter raises (conv_fails) or the
\* axvline call on the fail_at-th tracked Axes raises.
MouseMoveFault(canvas, xdata, conv_fails, fail_at) ==
    /\ conv_fails \/ fail_at > 0
    /\ LET r == process(State, canvas, MOUSE_MOVE, xdata, conv_fails, fail_at)
       IN r.err /\ Commit(r, "move", canvas, xdata, <<>>)

\* enable_tracking with a to_axes that is neither None, an Axes nor iterable.
EnableOther(canvas) ==
    Commit(add_mouse_tracking_vertical_line(State, canvas, ArgOther, <<>>,
                                            NoConverter),
           "enable", canvas, NoX, <<>>)

\* Code outside the controller removes a tracking line from its Axes
\* (Line2D.remove() on a line found in ax.lines); the controller still holds
\* the Line2D in its dictionary.
ExternalRemove(l) ==
    /\ artists[l].live /\ artists[l].attached
    /\ artists' = [artists EXCEPT ![l].attached = FALSE]
    /\ last' = [NoLast EXCEPT !.op = "external", !.canvas = ""]
    /\ UNCHANGED <<mouse_tracking_vertical_lines_cid,
                   mouse_tracking_vertical_lines, callbacks, next_cid,
                   draw_pending, unsubscribed, enabled_with, axes_call,
                   legend_call>>

\* The operations of one canvas, with and without exceptions.
FaultSurfaces == {"fig1"}
MaxTracked == Cardinality(AllAxes)

NextFault ==
    \/ \E s \in FaultSurfaces : \E to_axes \in ToAxes(s), conv \in Converters :
          EnableTracking(s, to_axes, conv)
    \/ \E s \in FaultSurfaces : DisableTracking(s)
    \/ \E s \in FaultSurfaces, xdata \in XData \cup {NoX} : MouseMove(s, xdata)
    \/ \E s \in FaultSurfaces : CloseEvent(s)
    \/ \E s \in FaultSurfaces : Repaint(s)
    \/ \E s \in FaultSurfaces, xdata \in XData, conv_fails \in BOOLEAN,
          fail_at \in 0..MaxTracked : MouseMoveFault(s, xdata, conv_fails, fail_at)
    \/ \E s \in FaultSurfaces : EnableOther(s)
    \/ \E l \in LineIds : ExternalRemove(l)

SpecFault == Init /\ [][NextFault]_vars

\* The operations of one canvas when the converter or a drawing call may
\* raise and nothing outside the controller touches the lines.
NextCallback ==
    \/ \E s \in FaultSurfaces : \E to_axes \in ToAxes(s), conv \in Converters :
          EnableTracking(s, to_axes, conv)
    \/ \E s \in FaultSurfaces : DisableTracking(s)
    \/ \E s \in FaultSurfaces, xdata \in XData \cup {NoX} : MouseMove(s, xdata)
    \/ \E s \in FaultSurfaces : CloseEvent(s)
    \/ \E s \in FaultSurfaces : Repaint(s)
    \/ \E s \in FaultSurfaces, xdata \in XData, conv_fails \in BOOLEAN,
          fail_at \in 0..MaxTracked : MouseMoveFault(s, xdata, conv_fails, fail_at)
    \/ \E s \in FaultSurfaces : EnableOther(s)

SpecCallback == Init /\ [][NextCallback]_vars

\* The callbacks of a canvas whose ids are not stored: connected at line 577
\* by a call that did not reach line 581.
Leaked(canvas) ==
    {cb \in callbacks[canvas] :
        \/ canvas \notin DOMAIN mouse_tracking_vertical_lines_cid
        \/ \A i \in 1..2 : mouse_tracking_vertical_lines_cid[canvas][i] # cb.cid}

\* enable_tracking on a canvas whose mpl_connect raises for `signal`; the
\* failure is taken on a canvas that has no callback left over from an
\* earlier failure.
EnableRefused(canvas, to_axes, conv, signal) ==
    /\ next_cid[canvas] + 1 <= MaxCid
    /\ Leaked(canvas) = {}
    /\ Commit(add_mouse_tracking_vertical_line(
                 [State EXCEPT !.refuse = {signal}], canvas, ArgAxes, to_axes,
                 conv),
              "enable", canvas, NoX, to_axes)

\* The operations of one canvas when subscribing may fail.
NextSubscribe ==
    \/ \E s \in FaultSurfaces : \E to_axes \in ToAxes(s), conv \in Converters :
          EnableTracking(s, to_axes, conv)
    \/ \E s \in FaultSurfaces : DisableTracking(s)
    \/ \E s \in FaultSurfaces, xdata \in XData \cup {NoX} : MouseMove(s, xdata)
    \/ \E s \in FaultSurfaces : CloseEvent(s)
    \/ \E s \in FaultSurfaces : Repaint(s)
    \/ \E s \in FaultSurfaces : \E to_axes \in ToAxes(s),
          signal \in {MOUSE_MOVE, CLOSE} :
            EnableRefused(s, to_axes, NoConverter, signal)

SpecSubscribe == Init /\ [][NextSubscribe]_vars

\* --------------------------------------------------- transitions of axes()
\* A caller is about to call axes() on the only Axes of a new figure, with
\* or without a suptitle.
InitAxes ==
    /\ mouse_tracking_vertical_lines_cid = <<>>
    /\ mouse_tracking_vertical_lines = <<>>
    /\ callbacks = [s \in Surfaces |-> {}]
    /\ next_cid = [s \in Surfaces |-> 1]
    /\ artists = [l \in LineIds |-> NoArtist]
    /\ draw_pending = [s \in Surfaces |-> FALSE]
    /\ unsubscribed = {}
    /\ enabled_with = <<>>
    /\ legend_call = NoLegendCall
    /\ last = NoLast
    /\ \E x_label \in {NoLabel, "x"}, y_label_left \in LabelArgs(LabelsLeft),
          y_label_right \in LabelArgs(LabelsRight), offset \in Offsets,
          suptitle \in {"", "T"} :
            axes_call = [phase |-> "args", x_label |-> x_label,
                         y_label_left |-> y_label_left,
                         y_label_right |-> y_label_right, offset |-> offset,
                         fig |-> NewFigure(suptitle), axs |-> <<>>]

\* The call runs and returns or raises.
CallAxes ==
    /\ axes_call.phase = "args"
    /\ LET r == axes(axes_call.fig, axes_call.x_label, axes_call.y_label_left,
                     axes_call.y_label_right, axes_call.offset)
       IN axes_call' = [axes_call EXCEPT
                          !.phase = IF r.err THEN "raised" ELSE "returned",
                          !.fig = r.fig, !.axs = r.axs]
    /\ UNCHANGED <<mouse_tracking_vertical_lines_cid,
                   mouse_tracking_vertical_lines, callbacks, next_cid, artists,
                   draw_pending, unsubscribed, enabled_with, legend_call,
                   last>>

NextAxes == CallAxes

SpecAxes == InitAxes /\ [][NextAxes]_vars

\* ------------------------------------------------- transitions of legend()
\* A caller is about to call legend() on Axes of a figure whose Axes carry
\* up to MaxHandles labelled artists each and no legend.
InitLegend ==
    /\ mouse_tracking_vertical_lines_cid = <<>>
    /\ mouse_tracking_vertical_lines = <<>>
    /\ callbacks = [s \in Surfaces |-> {}]
    /\ next_cid = [s \in Surfaces |-> 1]
    /\ artists = [l \in LineIds |-> NoArtist]
    /\ draw_pending = [s \in Surfaces |-> FALSE]
    /\ unsubscribed = {}
    /\ enabled_with = <<>>
    /\ axes_call = NoCall
    /\ last = NoLast
    /\ \E axes_ \in AxesLists, loc \in Locs,
          plotted \in [LegendAxes -> 0..MaxHandles] :
            legend_call = [phase |-> "args", axes_ |-> axes_, loc |-> loc,
                           plotted |-> plotted,
                           legends |-> [k \in LegendAxes |-> NoLegend]]

\* The call runs and returns or raises.
CallLegend(falls_back) ==
    /\ legend_call.phase = "args"
    /\ LET r == legend(legend_call.legends, legend_call.plotted,
                       legend_call.axes_, legend_call.loc, falls_back)
       IN legend_call' = [legend_call EXCEPT
                            !.phase = IF r.err THEN "raised" ELSE "returned",
                            !.legends = r.legends]
    /\ UNCHANGED <<mouse_tracking_vertical_lines_cid,
                   mouse_tracking_vertical_lines, callbacks, next_cid, artists,
                   draw_pending, unsubscribed, enabled_with, axes_call, last>>

NextLegend == \E falls_back \in BOOLEAN : CallLegend(falls_back)

SpecLegend == InitLegend /\ [][NextLegend]_vars

\* ------------------------------------------------------------- properties
MoveCallbacks(c) == {cb \in callbacks[c] : cb.signal = MOUSE_MOVE}
CloseCallbacks(c) == {cb \in callbacks[c] : cb.signal = CLOSE}

\* The figure has none of the controller's state left.
Purged(c) ==
    /\ c \notin DOMAIN mouse_tracking_vertical_lines_cid
    /\ c \notin DOMAIN mouse_tracking_vertical_lines
    /\ callbacks[c] = {}
    /\ LinesOfFigure(artists, c) = {}

\* The last operation was op on canvas c.
Did(op, c) == last.op = op /\ last.canvas = c

\* C1: whatever enable_tracking, move, disable_tracking and close operations
\* have run, a figure has at most one move callback and at most one close
\* callback of the controller connected.
C1_OneSubscriptionEach ==
    \A c \in Surfaces :
        /\ Cardinality(MoveCallbacks(c)) <= 1
        /\ Cardinality(CloseCallbacks(c)) <= 1

\* enable_tracking has just run on a figure that was already tracking.
C1_EnabledTwice ==
    \E c \in Surfaces :
        /\ Did("enable", c) /\ last.pre_cid # <<>>
        /\ Cardinality(MoveCallbacks(c)) = 1
        /\ Cardinality(CloseCallbacks(c)) = 1

\* C2: right after a close event on a figure that had a session, the figure
\* has no entry in either dictionary, no callback connected and no tracking
\* line on any of its axes.
C2_ClosePurges ==
    \A c \in Surfaces :
        (Did("close", c) /\ last.pre_cid # <<>>) => Purged(c)

\* A close event has been handled on a figure whose session had lines drawn.
C2_ClosedWithLines ==
    \E c \in Surfaces :
        /\ Did("close", c) /\ last.pre_cid # <<>> /\ last.pre_lines > 0
        /\ last.ran # {}

\* C3: enable_tracking on a figure that already tracks disconnects both old
\* callback ids, removes every line of the old session, and stores a
\* dictionary whose keys are exactly the new axes, each with no line.
C3_ReenableReplaces ==
    \A c \in Surfaces :
        (Did("enable", c) /\ last.pre_cid # <<>>) =>
            /\ ~last.err
            /\ \A cb \in callbacks[c] :
                   cb.cid \notin {last.pre_cid[1], last.pre_cid[2]}
            /\ LinesOfFigure(artists, c) = {}
            /\ c \in DOMAIN mouse_tracking_vertical_lines
            /\ LET d == mouse_tracking_vertical_lines[c]
                   B == {last.to_axes[i] : i \in 1..Len(last.to_axes)}
               IN /\ DictKeySet(d) = B
                  /\ Len(d) = Cardinality(B)
                  /\ \A i \in 1..Len(d) : d[i][2] = None

\* enable_tracking has replaced a session that had drawn a line on each of
\* two axes by a session that tracks one Axes.
C3_ReplacedDrawnSession ==
    \E c \in Surfaces :
        /\ Did("enable", c) /\ last.pre_cid # <<>> /\ last.pre_lines = 2
        /\ Len(last.to_axes) = 1
        /\ LinesOfFigure(artists, c) = {}

\* C4: no Axes ever carries more than one tracking line, between operations
\* and at every instant inside one (a move callback removes the old lines
\* before it draws a new one).
C4_AtMostOneLine ==
    /\ \A ax \in AllAxes : Cardinality(LinesOn(artists, ax)) <= 1
    /\ last.peak <= 1

\* A move event has redrawn axes that already carried a line.
C4_LineReplaced ==
    \E c \in Surfaces :
        /\ Did("move", c) /\ last.pre_lines > 0 /\ last.xdata # NoX
        /\ last.peak = 1
        /\ \E ax \in AxesOf(c) : Cardinality(LinesOn(artists, ax)) = 1

\* int(x) of a non-negative x counted in halves, stated without x_converter.
Snapped(x) == CHOOSE e \in 0..x : e % 2 = 0 /\ e <= x /\ x < e + 2

\* The x a session draws at for event.xdata = x.
ExpectedX(c, x) ==
    IF \E cb \in MoveCallbacks(c) : cb.conv = "int" THEN Snapped(x) ELSE x

\* C5: a move event with a coordinate on a tracking figure ends with exactly
\* one line on every tracked Axes, all at the converted coordinate (the
\* coordinate itself without a converter), and one draw_idle() request.
C5_MoveDraws ==
    \A c \in Surfaces :
        (Did("move", c) /\ last.xdata # NoX /\ last.pre_cid # <<>>) =>
            /\ ~last.err
            /\ c \in DOMAIN mouse_tracking_vertical_lines
            /\ \A i \in 1..Len(mouse_tracking_vertical_lines[c]) :
                  LET ax == mouse_tracking_vertical_lines[c][i][1]
                      line == mouse_tracking_vertical_lines[c][i][2]
                  IN /\ line # None
                     /\ LinesOn(artists, ax) = {line}
                     /\ artists[line].x = ExpectedX(c, last.xdata)
            /\ last.idle = 1
            /\ draw_pending[c]

\* A move event at x = 0.5 has drawn two axes at int(0.5) = 0.
C5_SnappedOnTwoAxes ==
    \E c \in Surfaces :
        /\ Did("move", c) /\ last.xdata = 1 /\ last.pre_cid # <<>>
        /\ Len(mouse_tracking_vertical_lines[c]) = 2
        /\ \A ax \in AxesOf(c) :
              \E l \in LinesOn(artists, ax) : artists[l].x = 0

\* C6: a move event without a coordinate on a tracking figure raises
\* nothing, leaves no line on the figure's axes and None in every entry of
\* the dictionary, and keeps the session with both callbacks connected.
C6_MoveAbsentClears ==
    \A c \in Surfaces :
        (Did("move", c) /\ last.xdata = NoX /\ last.pre_cid # <<>>) =>
            /\ ~last.err
            /\ LinesOfFigure(artists, c) = {}
            /\ c \in DOMAIN mouse_tracking_vertical_lines
            /\ \A i \in 1..Len(mouse_tracking_vertical_lines[c]) :
                  mouse_tracking_vertical_lines[c][i][2] = None
            /\ c \in DOMAIN mouse_tracking_vertical_lines_cid
            /\ mouse_tracking_vertical_lines_cid[c] = last.pre_cid
            /\ {cb.cid : cb \in MoveCallbacks(c)} = {last.pre_cid[1]}
            /\ {cb.cid : cb \in CloseCallbacks(c)} = {last.pre_cid[2]}

\* A move event without a coordinate has cleared axes that carried lines.
C6_ClearedDrawnLines ==
    \E c \in Surfaces :
        /\ Did("move", c) /\ last.xdata = NoX /\ last.pre_cid # <<>>
        /\ last.pre_lines > 0
        /\ LinesOfFigure(artists, c) = {}

\* C7: enable_tracking with an empty collection of axes leaves the figure
\* as disable_tracking does: no callback connected, no entry in either
\* dictionary.
C7_EmptyAxesInactive ==
    \A c \in Surfaces :
        (Did("enable", c) /\ last.to_axes = <<>>) =>
            /\ callbacks[c] = {}
            /\ c \notin DOMAIN mouse_tracking_vertical_lines_cid
            /\ c \notin DOMAIN mouse_tracking_vertical_lines

\* C8: a move event on a figure whose session has ended runs no callback,
\* draws no line, requests no redraw and raises nothing.
C8_MoveAfterEndIsInert ==
    \A c \in Surfaces :
        (Did("move", c) /\ last.pre_cid = <<>>) =>
            /\ last.ran = {}
            /\ last.peak = 0
            /\ last.idle = 0
            /\ ~last.err
            /\ LinesOfFigure(artists, c) = {}

\* A move event with a coordinate has arrived on a figure that had a
\* session (its canvas has handed out callback ids) and has none now.
C8_MovedAfterEnd ==
    \E c \in Surfaces :
        /\ Did("move", c) /\ last.pre_cid = <<>> /\ last.xdata # NoX
        /\ next_cid[c] > 1
        /\ last.ran = {}

\* C9: disable_tracking on a figure without a session raises nothing and
\* changes neither dictionary, no callback registry, no line and no pending
\* redraw.
C9_DisableIdleIsNoOp ==
    [][\A c \in Surfaces :
          (last'.op = "disable" /\ last'.canvas = c
             /\ c \notin DOMAIN mouse_tracking_vertical_lines_cid) =>
              /\ ~last'.err
              /\ UNCHANGED <<mouse_tracking_vertical_lines_cid,
                             mouse_tracking_vertical_lines, callbacks,
                             next_cid, artists, draw_pending>>]_vars

\* disable_tracking has run on a figure without a session while the other
\* figure was tracking with a line drawn.
C9_DisabledIdle ==
    \E c \in Surfaces :
        /\ Did("disable", c) /\ last.pre_cid = <<>> /\ ~last.err
        /\ \E o \in Surfaces \ {c} :
              /\ o \in DOMAIN mouse_tracking_vertical_lines_cid
              /\ LinesOfFigure(artists, o) # {}

\* C10: disable_tracking, called in any state (also one left by an operation
\* that raised), leaves the figure with no entry in either dictionary, no
\* callback connected and no line drawn.
C10_DisableLeavesNoResidue ==
    \A c \in Surfaces : Did("disable", c) => Purged(c)

\* The Axes the dictionary of figure c has as keys, and those among them
\* that carry n tracking lines.
TrackedAxes(c) ==
    IF c \in DOMAIN mouse_tracking_vertical_lines
    THEN {k : k \in {mouse_tracking_vertical_lines[c][i][1] :
                        i \in 1..Len(mouse_tracking_vertical_lines[c])}}
    ELSE {}

\* The values of the dictionary of figure c.
TrackedValues(c) ==
    {mouse_tracking_vertical_lines[c][i][2] :
        i \in 1..Len(mouse_tracking_vertical_lines[c])}

\* C11: when mpl_connect raises for the move or for the close event during
\* enable_tracking, the call raises and no callback that this call connected
\* is left connected on the figure.
C11_AllOrNothing ==
    \A c \in Surfaces :
        (Did("enable", c) /\ last.why = "connect") =>
            /\ last.err
            /\ {cb \in callbacks[c] : cb.cid \in last.made} = {}

\* C12: a move event whose x_converter raises ends with the exception
\* propagated, every line of the figure from before the event removed, no
\* line drawn at any instant, every dictionary value None, and the session
\* as it was: the ids stored and the two callbacks connected.
C12_ConverterFaultClears ==
    \A c \in Surfaces :
        (Did("move", c) /\ last.why = "converter") =>
            /\ last.err
            /\ LinesOfFigure(artists, c) = {}
            /\ last.peak = 0
            /\ last.idle = 0
            /\ c \in DOMAIN mouse_tracking_vertical_lines
            /\ TrackedValues(c) \subseteq {None}
            /\ c \in DOMAIN mouse_tracking_vertical_lines_cid
            /\ mouse_tracking_vertical_lines_cid[c] = last.pre_cid
            /\ \E m \in MoveCallbacks(c), d \in CloseCallbacks(c) :
                  last.pre_cid = <<m.cid, d.cid>>

\* The converter has raised on a move event over a figure that had a line
\* on each of its two tracked Axes.
C12_ConverterRaisedOverLines ==
    \E c \in Surfaces :
        /\ Did("move", c) /\ last.why = "converter"
        /\ last.pre_lines = 2
        /\ Cardinality(TrackedAxes(c)) = 2

\* C13: when a move or close callback ends with an exception, either no
\* tracked Axes has a line or every tracked Axes has exactly one, and the
\* figure is in both dictionaries or in neither.
C13_FaultLeavesConsistentState ==
    \A c \in Surfaces :
        ((Did("move", c) \/ Did("close", c)) /\ last.err) =>
            /\ \/ \A ax \in TrackedAxes(c) : LinesOn(artists, ax) = {}
               \/ \A ax \in TrackedAxes(c) :
                     Cardinality(LinesOn(artists, ax)) = 1
            /\ c \in DOMAIN mouse_tracking_vertical_lines_cid
                  <=> c \in DOMAIN mouse_tracking_vertical_lines

\* C14: the cleanup of a figure (close event or disable_tracking), run a
\* second time or after outside code has removed the session's lines,
\* raises nothing and ends with the figure purged.
C14_CleanupIdempotent ==
    \A c \in Surfaces :
        (Did("disable", c) \/ Did("close", c)) => (~last.err /\ Purged(c))

\* C15: while a figure has its ids stored, its dictionary has exactly the
\* Axes of the enabling call as keys, each once, and each value is None or
\* one line that was drawn on that Axes.
C15_KeysAreTrackedAxes ==
    \A c \in DOMAIN mouse_tracking_vertical_lines_cid :
        /\ c \in DOMAIN enabled_with
        /\ c \in DOMAIN mouse_tracking_vertical_lines
        /\ TrackedAxes(c) = enabled_with[c]
        /\ Len(mouse_tracking_vertical_lines[c]) = Cardinality(enabled_with[c])
        /\ \A i \in 1..Len(mouse_tracking_vertical_lines[c]) :
              LET ax == mouse_tracking_vertical_lines[c][i][1]
                  line == mouse_tracking_vertical_lines[c][i][2]
              IN line = None \/ (line \in LineIds /\ artists[line].ax = ax)

\* A move event without a coordinate has cleared the two lines of a session
\* that tracks two Axes.
C15_ClearedTwoTrackedAxes ==
    \E c \in Surfaces :
        /\ Did("move", c) /\ last.xdata = NoX /\ last.pre_lines = 2
        /\ c \in DOMAIN mouse_tracking_vertical_lines_cid
        /\ Cardinality(TrackedAxes(c)) = 2

Operations == {"enable", "disable", "move", "close"}

\* C27: after every enable_tracking, disable_tracking, move or close that
\* returned normally, every figure is in the id dictionary exactly when it is
\* in the line dictionary, and when it is, the callbacks connected on it are
\* exactly the move callback and the close callback with the stored ids.
C27_RegistriesAgree ==
    (last.op \in Operations /\ ~last.err) =>
        \A c \in Surfaces :
            /\ c \in DOMAIN mouse_tracking_vertical_lines_cid
                  <=> c \in DOMAIN mouse_tracking_vertical_lines
            /\ c \in DOMAIN mouse_tracking_vertical_lines_cid =>
                  /\ Cardinality(callbacks[c]) = 2
                  /\ \E m \in MoveCallbacks(c), d \in CloseCallbacks(c) :
                        mouse_tracking_vertical_lines_cid[c] = <<m.cid, d.cid>>

\* C28: an enable_tracking, disable_tracking, move or close on figure a
\* leaves the id entry, the line dictionary, the drawn lines, the callbacks
\* and the pending redraw of every other figure b as they were.
C28_SurfacesIndependent ==
    [][\A a \in Surfaces : \A b \in Surfaces \ {a} :
          (last'.op \in Operations /\ last'.canvas = a) =>
              /\ b \in DOMAIN mouse_tracking_vertical_lines_cid'
                    <=> b \in DOMAIN mouse_tracking_vertical_lines_cid
              /\ b \in DOMAIN mouse_tracking_vertical_lines_cid =>
                    mouse_tracking_vertical_lines_cid'[b]
                       = mouse_tracking_vertical_lines_cid[b]
              /\ b \in DOMAIN mouse_tracking_vertical_lines'
                    <=> b \in DOMAIN mouse_tracking_vertical_lines
              /\ b \in DOMAIN mouse_tracking_vertical_lines =>
                    mouse_tracking_vertical_lines'[b]
                       = mouse_tracking_vertical_lines[b]
              /\ callbacks'[b] = callbacks[b]
              /\ draw_pending'[b] = draw_pending[b]
              /\ LinesOfFigure(artists', b) = LinesOfFigure(artists, b)
              /\ \A l \in LinesOfFigure(artists, b) :
                    artists'[l] = artists[l]]_vars

\* A session has been closed on one figure, with lines drawn, while the
\* other figure was tracking with a line drawn.
C28_ClosedBesideDrawnSession ==
    \E a \in Surfaces : \E b \in Surfaces \ {a} :
        /\ (Did("close", a) \/ Did("disable", a)) /\ last.pre_lines > 0
        /\ b \in DOMAIN mouse_tracking_vertical_lines_cid
        /\ LinesOfFigure(artists, b) # {}

\* C29: a move event that carries a coordinate and whose callback drew all
\* lines has called draw_idle() exactly once; a move event without a
\* coordinate or with a failing converter, a close event and
\* disable_tracking have called it not at all and leave the pending redraw of
\* every figure as it was, whatever lines they removed.
C29_RedrawOnlyAfterDrawing ==
    /\ [](\A c \in Surfaces :
            /\ (Did("move", c) /\ last.xdata # NoX /\ last.ran # {}
                   /\ ~last.err) => (last.idle = 1 /\ draw_pending[c])
            /\ (Did("move", c) /\ (last.xdata = NoX \/ last.why = "converter"))
                  => last.idle = 0
            /\ (Did("close", c) \/ Did("disable", c)) => last.idle = 0)
    /\ [][(\/ last'.op \in {"close", "disable"}
           \/ last'.op = "move"
                /\ (last'.xdata = NoX \/ last'.why = "converter"))
            => draw_pending' = draw_pending]_vars

\* A move event without a coordinate has removed two lines after the
\* redraw asked for when they were drawn had been done.
C29_ClearedWithoutRedraw ==
    \E c \in Surfaces :
        /\ Did("move", c) /\ last.xdata = NoX /\ last.pre_lines = 2
        /\ last.ran # {} /\ last.idle = 0
        /\ ~draw_pending[c]

\* ------------------------------------------------------ properties of axes()
\* axes() has returned.
Returned == axes_call.phase = "returned"

\* The numbers of left and right labels of the call (a string is one label).
NLeft == Len(axes_call.y_label_left.labels)
NRight == Len(axes_call.y_label_right.labels)

\* Where the spine of `side` of the returned Axes k is, in Axes coordinates:
\* a spine that was never positioned is at ("outward", 0), on the edge of the
\* plotting area.
SpineOffset(k, side) ==
    LET sp == axes_call.fig.axes[axes_call.axs[k]].spines[side]
    IN IF sp.kind = "axes" THEN sp.amount
       ELSE IF side = "left" THEN 0 ELSE AxesUnit

\* C17: for N left and M right labels axes() returns N + M Axes; left Axes i
\* (i = 0..N-1) has its left spine at -(N-i-1)*offset, so the positions rise
\* strictly to 0 at the last left Axes; right Axes i (i = 0..M-1) has its
\* right spine at 1 + i*offset, rising strictly from 1.
C17_CountAndOffsets ==
    Returned =>
        /\ Len(axes_call.axs) = NLeft + NRight
        /\ \A i \in 0..(NLeft - 1) :
              SpineOffset(i + 1, "left") = -(NLeft - i - 1) * axes_call.offset
        /\ \A i \in 0..(NRight - 1) :
              SpineOffset(NLeft + i + 1, "right")
                 = AxesUnit + i * axes_call.offset
        /\ \A i, j \in 1..NLeft :
              i < j => SpineOffset(i, "left") < SpineOffset(j, "left")
        /\ NLeft > 0 => SpineOffset(NLeft, "left") = 0
        /\ \A i, j \in 1..NRight :
              i < j => SpineOffset(NLeft + i, "right")
                          < SpineOffset(NLeft + j, "right")
        /\ NRight > 0 => SpineOffset(NLeft + 1, "right") = AxesUnit

\* axes() has returned for three left labels and two right labels.
C17_ThreeLeftTwoRight ==
    Returned /\ NLeft = 3 /\ NRight = 2 /\ Len(axes_call.axs) = 5

\* The call of Scenario A: left ["A", "B"], right ["C"], offset 0.1.
ScenarioA ==
    /\ axes_call.y_label_left = [kind |-> ArgList, labels |-> <<"A", "B">>]
    /\ axes_call.y_label_right = [kind |-> ArgList, labels |-> <<"C">>]
    /\ axes_call.offset = ExampleOffset

\* C18 as stated: with two or more left labels the host is the left Axes
\* whose spine is at 0 and every new left Axes is further left; in Scenario
\* A there are 3 Axes, left spines at -0.1 and 0.0 with the host at 0.0, and
\* the right spine at 1.0.
C18_HostAtPlotEdge ==
    (Returned /\ axes_call.y_label_left.kind = ArgList /\ NLeft >= 2) =>
        /\ \E k \in 1..NLeft :
              /\ axes_call.axs[k] = HostAx
              /\ SpineOffset(k, "left") = 0
              /\ \A j \in (1..NLeft) \ {k} :
                    axes_call.axs[j] # HostAx /\ SpineOffset(j, "left") < 0
        /\ ScenarioA =>
              /\ Len(axes_call.axs) = 3
              /\ SpineOffset(1, "left") = -ExampleOffset
              /\ SpineOffset(2, "left") = 0
              /\ axes_call.axs[2] = HostAx
              /\ SpineOffset(3, "right") = AxesUnit

\* C18 amended: with N >= 2 left labels the host is returned Axes 0 with its
\* left spine at -(N-1)*offset, the farthest from the plot; every new left
\* Axes is nearer to the plot than the one before it and the last is at 0;
\* in Scenario A there are 3 Axes, left spines at -0.1 (the host) and 0.0
\* (a new Axes), and the right spine at 1.0.
C18_HostOutermost ==
    (Returned /\ axes_call.y_label_left.kind = ArgList /\ NLeft >= 2) =>
        /\ axes_call.axs[1] = HostAx
        /\ SpineOffset(1, "left") = -(NLeft - 1) * axes_call.offset
        /\ \A j \in 2..NLeft :
              /\ axes_call.axs[j] # HostAx
              /\ SpineOffset(j, "left") > SpineOffset(j - 1, "left")
        /\ SpineOffset(NLeft, "left") = 0
        /\ ScenarioA =>
              /\ Len(axes_call.axs) = 3
              /\ SpineOffset(1, "left") = -ExampleOffset
              /\ SpineOffset(2, "left") = 0
              /\ axes_call.axs[1] = HostAx
              /\ axes_call.axs[2] # HostAx
              /\ SpineOffset(3, "right") = AxesUnit

\* The call of Scenario A has returned.
C18_ScenarioAReturned == Returned /\ ScenarioA

\* C19: whenever any label is given on either side, element 0 of the
\* returned list is host_ax.
C19_FirstIsHost ==
    (Returned /\ NLeft + NRight >= 1) =>
        /\ Len(axes_call.axs) >= 1
        /\ axes_call.axs[1] = HostAx

\* C20: with no label on either side (None or an empty collection) axes()
\* returns the list [host_ax].
C20_NoLabelsGivesHost ==
    (Returned /\ NLeft = 0 /\ NRight = 0) => axes_call.axs = <<HostAx>>

\* The returned Axes k, and the Axes with that identity as subplots() or
\* twinx() created it.
ReturnedAxes(k) == axes_call.fig.axes[axes_call.axs[k]]
CreatedAs(k) ==
    IF axes_call.axs[k] = HostAx THEN NewAxes
    ELSE twinx(NewFigure("")).axes[2]

\* How many of the returned Axes are left Axes.
ReturnedLeft == Len(axes_call.axs) - NRight

\* C21: with a string as y_label_left the host carries that label and is the
\* only left Axes of the result, no Axes is created for the left side, and
\* the host's spines (position and visibility), patch and frame are as
\* before the call.
C21_SingleLeftLabelKeepsHost ==
    (Returned /\ axes_call.y_label_left.kind = ArgStr) =>
        /\ ReturnedLeft = 1
        /\ axes_call.axs[1] = HostAx
        /\ \A k \in 2..Len(axes_call.axs) : axes_call.axs[k] # HostAx
        /\ Len(axes_call.fig.axes) = 1 + NRight
        /\ axes_call.fig.axes[HostAx].ylabel = axes_call.y_label_left.labels[1]
        /\ axes_call.fig.axes[HostAx].spines = NewAxes.spines
        /\ axes_call.fig.axes[HostAx].patch = NewAxes.patch
        /\ axes_call.fig.axes[HostAx].frame_on = NewAxes.frame_on

\* axes() has returned for the left label "A" and two right labels.
C21_StringLeftTwoRight ==
    /\ Returned /\ NRight = 2
    /\ axes_call.y_label_left = [kind |-> ArgStr, labels |-> <<"A">>]

\* C22: for M right labels (a string being one) the last M Axes of the
\* result are the M Axes created last, in creation order, none of them the
\* host, labelled on the right, with right Axes i at 1 + i*offset; the Axes
\* before them are the left Axes, labelled on the left, ordered from the
\* farthest from the plot to the nearest.
C22_RightAxesAreNewTwins ==
    Returned =>
        /\ ReturnedLeft >= 0
        /\ \A i \in 0..(NRight - 1) :
              /\ axes_call.axs[ReturnedLeft + i + 1] # HostAx
              /\ axes_call.axs[ReturnedLeft + i + 1]
                    = Len(axes_call.fig.axes) - NRight + i + 1
              /\ ReturnedAxes(ReturnedLeft + i + 1).label_position = "right"
              /\ ReturnedAxes(ReturnedLeft + i + 1).ylabel
                    = axes_call.y_label_right.labels[i + 1]
              /\ SpineOffset(ReturnedLeft + i + 1, "right")
                    = AxesUnit + i * axes_call.offset
        /\ Len(axes_call.fig.axes) - NRight \in {1, ReturnedLeft}
        /\ \A k \in 1..ReturnedLeft :
              /\ ReturnedAxes(k).label_position = "left"
              /\ k > 1 => SpineOffset(k - 1, "left") < SpineOffset(k, "left")

\* axes() has returned for two left labels and three right labels.
C22_TwoLeftThreeRight ==
    Returned /\ NLeft = 2 /\ NRight = 3 /\ Len(axes_call.axs) = 5

\* C23: every returned Axes except the last left one and the first right
\* one has its frame on, its patch invisible and, of its spines, only the
\* one of its own side visible; the last left and the first right Axes have
\* frame, patch and the visibility of their other spines as subplots() or
\* twinx() made them, and the spine of their own side visible.
C23_OuterAxesShowOnlyOwnSpine ==
    Returned =>
        \A k \in 1..Len(axes_call.axs) :
            LET side == IF k <= ReturnedLeft THEN "left" ELSE "right"
                nearest == k = ReturnedLeft \/ k = ReturnedLeft + 1
                ax == ReturnedAxes(k)
            IN /\ ax.spines[side].visible
               /\ ~nearest =>
                     /\ ax.frame_on /\ ~ax.patch
                     /\ \A sd \in Sides \ {side} : ~ax.spines[sd].visible
               /\ nearest =>
                     /\ ax.frame_on = CreatedAs(k).frame_on
                     /\ ax.patch = CreatedAs(k).patch
                     /\ \A sd \in Sides \ {side} :
                           ax.spines[sd].visible = CreatedAs(k).spines[sd].visible

\* axes() has returned for three left and three right labels.
C23_ThreeLeftThreeRight ==
    Returned /\ NLeft = 3 /\ NRight = 3 /\ Len(axes_call.axs) = 6

\* C24: a call with a label argument of an unsupported type raises, and the
\* figure is then as before the call: the host without a new label, grid or
\* spine change, and no twin Axes.
C24_InvalidLabelMutatesNothing ==
    (/\ axes_call.phase \in {"returned", "raised"}
     /\ \/ axes_call.y_label_left.kind = ArgOther
        \/ axes_call.y_label_right.kind = ArgOther) =>
        /\ axes_call.phase = "raised"
        /\ axes_call.fig = NewFigure(axes_call.fig.suptitle)

\* ---------------------------------------------------- properties of legend()
\* The handles and the labels of the Axes of axes_[1..n], one Axes after the
\* other.
RECURSIVE PairsUpTo(_)
PairsUpTo(n) ==
    IF n = 0 THEN <<>>
    ELSE PairsUpTo(n - 1)
           \o [j \in 1..legend_call.plotted[legend_call.axes_[n]] |->
                 <<legend_call.axes_[n], j>>]

\* C25: legend() on a non-empty axes_ with a location of LegendLocation
\* returns with one legend attached to axes_[0] and to no other Axes; its
\* handles and its labels are those of the Axes of axes_, Axes after Axes in
\* the order of axes_ and in each Axes' own order, as many as the Axes have
\* together.
C25_OneCombinedLegend ==
    (/\ legend_call.phase \in {"returned", "raised"}
     /\ legend_call.axes_ # <<>>
     /\ legend_call.loc.value \in LegendLocation) =>
        LET first == legend_call.axes_[1]
            pairs == PairsUpTo(Len(legend_call.axes_))
            got == legend_call.legends[first]
        IN /\ legend_call.phase = "returned"
           /\ got.attached
           /\ got.lines = [i \in 1..Len(pairs) |->
                             <<"line", pairs[i][1], pairs[i][2]>>]
           /\ got.labels = [i \in 1..Len(pairs) |->
                              <<"label", pairs[i][1], pairs[i][2]>>]
           /\ got.loc = legend_call.loc.value
           /\ \A k \in LegendAxes \ {first} : legend_call.legends[k] = NoLegend

\* legend() has returned for two different Axes, the second one first, each
\* with two labelled artists.
C25_TwoAxesCombined ==
    /\ legend_call.phase = "returned"
    /\ legend_call.axes_ = <<2, 1>>
    /\ legend_call.plotted[1] = 2 /\ legend_call.plotted[2] = 2
    /\ Len(legend_call.legends[2].labels) = 4

\* C26: legend() with a location that is no value of LegendLocation raises
\* and attaches no legend to any Axes.
C26_UnknownLocationRejected ==
    (/\ legend_call.phase \in {"returned", "raised"}
     /\ legend_call.axes_ # <<>>
     /\ legend_call.loc.value \notin LegendLocation) =>
        /\ legend_call.phase = "raised"
        /\ \A k \in LegendAxes : legend_call.legends[k] = NoLegend

====
